---- MODULE Spec2Model ----
(***************************************************************************)
(* Supplier risk review service: the context provider                      *)
(* (services/context_provider.py) and the LLM reviewer                     *)
(* (services/llm_reviewer.py).                                             *)
(*                                                                         *)
(* Strings built by the code are kept as sequences of string tokens (the   *)
(* literal pieces of the f-strings and the interpolated field values), so  *)
(* that the layout of the evidence text can be inspected; Flat turns a     *)
(* token sequence into the string the code hashes.  Scores are integers in *)
(* hundredths (0.45 is 45).  Time is in seconds.                           *)
(***************************************************************************)
EXTENDS Integers, Sequences, FiniteSets, TLC

(* ------------------------------ bounds -------------------------------- *)

\* number of concurrent callers of review_supplier
NumCallers == 2
\* the clock advances in steps of TickSeconds, at most MaxTicks times
MaxTicks == 2
\* documents the store may hold for one supplier (bundle specification)
MaxDocs == 2
\* document updates the environment performs (bundle specification)
MaxUpdates == 1

\* news items handed to compute_risk_score in one call
MaxItems == 3
\* rows the jobs add to supplier_risk_profiles
MaxProfiles == 3
\* documents ingested into Airweave, and runs of the risk_score job
MaxNews == 2
MaxRuns == 2
\* split_text: the longest text, the largest chunk size, and the chunks
\* after which a call is no longer followed
MaxTextLen == 5
MaxChunkSize == 4
MaxChunks == 6
\* documents of one batch_score request, and requests
MaxBatch == 3
MaxBatches == 2

Procs == 1..NumCallers

(* --------------------------- program constants ------------------------ *)

\* ContextProvider.__init__: cache_ttl default
cache_ttl == 3600
\* seconds per clock step: half a default TTL
TickSeconds == 1800

\* suppliers a caller may ask for; the second has no core record
KnownSupplier == "SUP-000045"
Suppliers == {KnownSupplier, "SUP-404"}

\* the suppliers table (id, name; the other columns are read and hashed
\* the same way and are constant here)
supplier_table ==
    {[id |-> KnownSupplier, name |-> "Metal-Can Co"],
     [id |-> "SUP-000046", name |-> "Glass Works"]}

VARIABLES
    context_provider,  \* LLMReviewer.context_provider is set
    redis,             \* ContextProvider.redis is set (redis_url given)
    client,            \* LLMReviewer.client is set (api_key given)
    qdrant,            \* payloads held by the supplier_docs collection
    updates,           \* number of document updates done so far
    redis_up,          \* the cache store is reachable
    redis_store,       \* key -> [value, expires_at]
    clock,             \* number of clock steps so far
    req,               \* per caller: the locals of its review_supplier call
    api,               \* what the last run of test_caching stored and read back
    post,              \* the last run of lines 154-165 on a given backend response
    supplier_risk_profiles,  \* the rows of supplier_risk_profiles, in insertion order
    http,              \* the last response of GET /suppliers/{supplier_id}/risk
    scored,            \* the last run of compute_risk_score
    airweave,          \* AirweaveClient._documents
    feature_store,     \* the lines of feature_store.features
    job,               \* the run of the risk_score job in progress
    scorer,            \* the llm_scorer cache and its batch request in progress
    split              \* the locals of a split_text call

vars == <<context_provider, redis, client, qdrant, updates, redis_up,
          redis_store, clock, req, api, post, supplier_risk_profiles, http, scored,
          airweave, feature_store, job, scorer, split>>

now == clock * TickSeconds

(* ------------------------------ helpers ------------------------------- *)

\* all orderings of a finite set, as sequences
Orderings(S) ==
    {f \in [1..Cardinality(S) -> S] : \A i, j \in DOMAIN f : f[i] = f[j] => i = j}

RECURSIVE Flat(_)
\* the string a token sequence stands for
Flat(tokens) ==
    IF tokens = << >> THEN "" ELSE Head(tokens) \o Flat(Tail(tokens))

RECURSIVE Join(_, _)
\* sep.join(lines), on token sequences
Join(sep, lines) ==
    IF lines = << >> THEN << >>
    ELSE IF Len(lines) = 1 THEN lines[1]
    ELSE lines[1] \o <<sep>> \o Join(sep, Tail(lines))

(* ------------------- services/context_provider.py --------------------- *)

\* get_supplier_core as it would be if it returned a row for every id
get_supplier_core_any(supplier_id) == supplier_table

\* get_supplier_core: the row of the suppliers table, {} (here the empty
\* set of rows) when there is none
get_supplier_core(supplier_id) ==
    {row \in supplier_table : row.id = supplier_id}

\* the hits of a search of supplier_docs, filtered by supplier and
\* collection; the order of the hits is the store's choice
Hits(docs, supplier_id, collection) ==
    Orderings({d \in docs : d.supplier_id = supplier_id /\ d.collection = collection})

\* qdrant.search(collection_name="supplier_docs", query_filter=...)
search(supplier_id, collection) == Hits(qdrant, supplier_id, collection)

\* get_recent_news: one dict per hit, in hit order
get_recent_news(hits) ==
    [i \in DOMAIN hits |->
        [type |-> "news", title |-> hits[i].title, content |-> hits[i].content,
         published |-> hits[i].timestamp, source |-> hits[i].source]]

\* get_internal_docs: one dict per hit, in hit order
get_internal_docs(hits) ==
    [i \in DOMAIN hits |->
        [type |-> hits[i].doc_type, content |-> hits[i].content,
         timestamp |-> hits[i].timestamp, source |-> hits[i].source]]

\* str.title() on the document types in use
Title(t) ==
    CASE t = "email" -> "Email"
      [] t = "sap_data" -> "Sap_Data"
      [] t = "news" -> "News"
      [] OTHER -> t

\* InternalLine as it would be with the timestamp left out of the line
InternalLine_without_timestamp(i, doc) ==
    <<"[E", ToString(i), "] ", Title(doc.type), ": ", doc.content>>

\* f"[E{i}] {doc['type'].title()} ({doc['timestamp']}): {doc['content']}"
InternalLine(i, doc) ==
    <<"[E", ToString(i), "] ", Title(doc.type), " (", doc.timestamp, "): ", doc.content>>

\* f"[E{i}] News ({article['published']}): {article['title']} - {article['content']}"
NewsLine(i, article) ==
    <<"[E", ToString(i), "] ", "News", " (", article.published, "): ",
      article.title, " - ", article.content>>

\* NewsStart as it would be with the news numbered from 1 again
NewsStart_from_one(internal_docs) == 1

\* the start value of enumerate(news, len(internal_docs) + 1)
NewsStart(internal_docs) == Len(internal_docs) + 1

\* the list `evidence` after both loops
EvidenceLines(internal_docs, news) ==
    [i \in 1..Len(internal_docs) |-> InternalLine(i, internal_docs[i])]
    \o [j \in 1..Len(news) |-> NewsLine(NewsStart(internal_docs) + j - 1, news[j])]

InternalHeading == "\n### INTERNAL\n"
ExternalHeading == "\n\n### EXTERNAL\n"

\* get_context_bundle, after the supplier's core record was found
BuildContext(supplier_core, internal_docs, news) ==
    LET evidence == EvidenceLines(internal_docs, news)
        k == Len(internal_docs)
    IN [supplier_core |-> supplier_core,
        evidence |-> <<InternalHeading>> \o Join("\n", SubSeq(evidence, 1, k))
                     \o <<ExternalHeading>>
                     \o Join("\n", SubSeq(evidence, k + 1, Len(evidence)))]

\* json.dumps(evidence, sort_keys=True) of a context bundle: the keys in
\* lexicographic order, "evidence" before "supplier_core", "id" before "name"
JsonDumpsContext(context) ==
    "{\"evidence\": \"" \o Flat(context.evidence)
    \o "\", \"supplier_core\": {\"id\": \"" \o context.supplier_core.id
    \o "\", \"name\": \"" \o context.supplier_core.name \o "\"}}"

\* hashlib.sha256(...).hexdigest(), taken as collision-free: an injective
\* function of the bytes hashed
sha256_hexdigest(s) == "sha256<" \o s \o ">"

\* _compute_evidence_hash
compute_evidence_hash(evidence) == sha256_hexdigest(JsonDumpsContext(evidence))

\* f"review:{supplier_id}:{evidence_hash}"
cache_key(supplier_id, evidence_hash) ==
    "review:" \o supplier_id \o ":" \o evidence_hash

\* the value a dict lookup or a call gives when there is nothing: None
NoReview == [none |-> TRUE]

\* json.dumps raises TypeError on a datetime: a review dict is serializable
\* when its timestamp, if any, is already an ISO string
Serializable(review) ==
    ~("timestamp" \in DOMAIN review /\ "datetime" \in DOMAIN review.timestamp)

\* json.dumps(review) of a serializable dict, and json.loads of that text
json_dumps(review) == [json |-> review]
json_loads(text) == text.json

\* redis GET: the value under key unless absent or past its expiry
RedisGet(store, key, t) ==
    IF key \in DOMAIN store /\ t < store[key].expires_at
    THEN [found |-> TRUE, value |-> store[key].value]
    ELSE [found |-> FALSE, value |-> json_dumps(NoReview)]

\* redis SETEX key ttl value: sets or replaces the entry
RedisSetex(store, key, ttl, value, t) ==
    [k \in DOMAIN store \cup {key} |->
        IF k = key THEN [value |-> value, expires_at |-> t + ttl] ELSE store[k]]

\* get_cached_review on the given store at time t: a dict, None, or the
\* exception of an unreachable store
get_cached_review(store, t, supplier_id, evidence_hash) ==
    IF ~redis THEN [raised |-> "", found |-> FALSE, value |-> NoReview]
    ELSE IF ~redis_up THEN [raised |-> "ConnectionError", found |-> FALSE, value |-> NoReview]
    ELSE LET cached == RedisGet(store, cache_key(supplier_id, evidence_hash), t)
         IN IF cached.found
            THEN [raised |-> "", found |-> TRUE, value |-> json_loads(cached.value)]
            ELSE [raised |-> "", found |-> FALSE, value |-> NoReview]

\* cache_review: the exception raised ("" for none) and the store afterwards.
\* json.dumps(review) is an argument of setex, evaluated before the call.
cache_review(store, t, supplier_id, evidence_hash, review) ==
    IF ~redis THEN [raised |-> "", store |-> store]
    ELSE IF ~Serializable(review) THEN [raised |-> "TypeError", store |-> store]
    ELSE IF ~redis_up THEN [raised |-> "ConnectionError", store |-> store]
    ELSE [raised |-> "",
          store |-> RedisSetex(store, cache_key(supplier_id, evidence_hash),
                               cache_ttl, json_dumps(review), t)]

(* --------------------- services/llm_reviewer.py ----------------------- *)

Dimensions == {"financial", "supply", "reputation", "quality", "geo"}

\* DIMENSION_WEIGHTS, in hundredths
DIMENSION_WEIGHTS ==
    [financial |-> 25, supply |-> 30, reputation |-> 20, quality |-> 15, geo |-> 10]

\* LLMReviewer.get_context_bundle without a context provider: the mock bundle
MockContext(supplier_id) ==
    [supplier_core |-> [id |-> supplier_id, name |-> "Metal-Can Co"],
     evidence |-> <<"\n### INTERNAL\n",
                    "[E", "1", "] ", "SAP Data", " (", "2025-06", "): ",
                    "On-time delivery rate 94%, Quality rating B+", "\n",
                    "[E", "2", "] ", "Email", " (", "2025-07-01", "): ",
                    "Production delay reported at main facility",
                    "\n\n### EXTERNAL\n",
                    "[E", "3", "] ", "News", " (", "2025-07-10", "): ",
                    "Metal-Can Co reports 15% revenue growth", "\n",
                    "[E", "4", "] ", "ESG Report", " (", "2025-Q2", "): ",
                    "No major incidents, carbon reduction on track">>]

\* mock_response as it would be with a sixth dimension in the response
mock_response_with_esg(supplier_name) ==
    [supplier |-> supplier_name,
     overall_risk |-> [grade |-> "medium", score |-> 45,
                       reason |-> "Mixed signals: strong financials [E3] but supply concerns [E2]"],
     dimensions |->
        [financial |-> [score |-> 20, reason |-> "15% revenue growth [E3]"],
         supply |-> [score |-> 60, reason |-> "Production delays reported [E2]"],
         reputation |-> [score |-> 30, reason |-> "No major incidents [E4]"],
         quality |-> [score |-> 40, reason |-> "B+ quality rating [E1]"],
         geo |-> [score |-> 30, reason |-> "Insufficient data"],
         esg |-> [score |-> 30, reason |-> "Insufficient data"]]]

\* _mock_response
mock_response(supplier_name) ==
    [supplier |-> supplier_name,
     overall_risk |-> [grade |-> "medium", score |-> 45,
                       reason |-> "Mixed signals: strong financials [E3] but supply concerns [E2]"],
     dimensions |->
        [financial |-> [score |-> 20, reason |-> "15% revenue growth [E3]"],
         supply |-> [score |-> 60, reason |-> "Production delays reported [E2]"],
         reputation |-> [score |-> 30, reason |-> "No major incidents [E4]"],
         quality |-> [score |-> 40, reason |-> "B+ quality rating [E1]"],
         geo |-> [score |-> 30, reason |-> "Insufficient data"]]]

\* sum(scores[dim]["score"] * DIMENSION_WEIGHTS[dim] ...) over the reals, in
\* ten-thousandths
WeightedScore(scores) ==
    scores.financial.score * DIMENSION_WEIGHTS.financial
    + scores.supply.score * DIMENSION_WEIGHTS.supply
    + scores.reputation.score * DIMENSION_WEIGHTS.reputation
    + scores.quality.score * DIMENSION_WEIGHTS.quality
    + scores.geo.score * DIMENSION_WEIGHTS.geo

\* The sum is computed in binary floating point: five products and five
\* additions, each rounded to a double.  The double obtained lies below, on
\* or above the real sum by far less than one ten-thousandth; which of the
\* three depends on the operands (0.66*0.30 + 0.66*0.15 + 0.33*0.10 gives
\* 0.33000000000000007).  FloatErrors is the sign of that error, and
\* FloatSum the double, in hundred-thousandths: one unit stands for the
\* error, which is smaller than any difference between two real sums.
FloatErrors == {-1, 0, 1}
FloatSum(scores, err) == WeightedScore(scores) * 10 + err

\* "high" if weighted_score > 0.66 else "medium" if weighted_score > 0.33 else "low"
Grade(weighted_score) ==
    IF weighted_score > 66000 THEN "high"
    ELSE IF weighted_score > 33000 THEN "medium"
    ELSE "low"

\* Round2 as it would be if it cut the digits off
Round2_truncate(x) == x \div 1000

\* round(weighted_score, 2): hundred-thousandths to hundredths, to the
\* nearest; a double exactly half way goes to the even neighbour
Round2(x) ==
    LET q == x \div 1000
        r == x % 1000
    IN IF r > 500 \/ (r = 500 /\ q % 2 = 1) THEN q + 1 ELSE q

\* the string the code writes into every review
MockHash == "mock_hash"

\* a dimension entry whose "score" is a number; an entry whose score is
\* some other value carries it under score_text
IsNumeric(entry) == "score" \in DOMAIN entry

\* ValidReview as it would be without any validation
ValidReview_unchecked(d) == TRUE

\* RiskReview(**d): the fields pydantic requires and the [0, 1] score bounds
\* (ge=0.0, le=1.0) of OverallRisk and of every DimensionScore.  dimensions
\* is a Dict[str, DimensionScore]: any set of keys is accepted.
ValidReview(d) ==
    /\ {"supplier", "overall_risk", "dimensions", "evidence_hash"} \subseteq DOMAIN d
    /\ d.overall_risk.score \in 0..100
    /\ \A dim \in DOMAIN d.dimensions :
          /\ IsNumeric(d.dimensions[dim])
          /\ d.dimensions[dim].score \in 0..100

\* RiskReview(**d) of a valid dict: an ISO timestamp string is parsed
RiskReview(d) ==
    [d EXCEPT !.timestamp =
        IF "iso" \in DOMAIN @ THEN [datetime |-> @.iso] ELSE @]

\* CachedIsHit as it would be if the cached review were ignored
CachedIsHit_never(cached) == FALSE

\* `if cached_review:` : a dict that is not None and not empty
CachedIsHit(cached) == cached.found /\ DOMAIN cached.value # {}

\* the dict _postprocess_review hands to RiskReview: the response with the
\* overall score and grade replaced, the timestamp and the hash added
UpdatedResponse(llm_response, t, err) ==
    LET weighted_score == FloatSum(llm_response.dimensions, err)
    IN [supplier |-> llm_response.supplier,
        overall_risk |-> [llm_response.overall_risk EXCEPT
                             !.score = Round2(weighted_score),
                             !.grade = Grade(weighted_score)],
        dimensions |-> llm_response.dimensions,
        timestamp |-> [datetime |-> t],
        evidence_hash |-> MockHash]

\* the exception of the sum at line 204-207: scores[dim] of a dimension the
\* response lacks is a KeyError, a score that is not a number times a float
\* a TypeError; the dimensions are visited in the order of DIMENSION_WEIGHTS
SumError(scores) ==
    LET order == <<"financial", "supply", "reputation", "quality", "geo">>
        bad == {i \in DOMAIN order :
                    order[i] \notin DOMAIN scores \/ ~IsNumeric(scores[order[i]])}
    IN IF bad = {} THEN ""
       ELSE LET first == CHOOSE i \in bad : \A j \in bad : i <= j
            IN IF order[first] \notin DOMAIN scores THEN "KeyError" ELSE "TypeError"

\* _postprocess_review of a dict response at time t, the sum carrying the
\* floating-point error err: the exception raised ("" for none) and the
\* review; review.dict() is the same record
postprocess_review(llm_response, t, err) ==
    IF SumError(llm_response.dimensions) # ""
    THEN [raised |-> SumError(llm_response.dimensions), review |-> NoReview]
    ELSE LET d == UpdatedResponse(llm_response, t, err)
         IN IF ValidReview(d)
            THEN [raised |-> "", review |-> d]
            ELSE [raised |-> "ValidationError", review |-> NoReview]

(* ------------------------------- state -------------------------------- *)

NoContext == [supplier_core |-> [id |-> "", name |-> ""], evidence |-> << >>]
NoResponse == [kind |-> "none"]

\* the locals of a caller that is not inside review_supplier.  lookup, calls
\* and wrote record what the call has done so far: the outcome of its cache
\* lookup, its invocations of the assessment backend, whether it wrote to
\* the cache.
Idle ==
    [pc |-> "idle", supplier_id |-> "", internal_docs |-> << >>, news |-> << >>,
     context |-> NoContext, evidence_hash |-> "", response |-> NoResponse,
     result |-> NoReview, error |-> "", step |-> "", lookup |-> "none",
     calls |-> 0, wrote |-> FALSE, logged |-> FALSE]

\* no run of test_caching yet
NoCall ==
    [called |-> FALSE, review |-> NoReview, raised |-> "", cached |-> NoReview,
     missing |-> NoReview]

\* no run of lines 154-165 on a given response yet
NoPost ==
    [called |-> FALSE, llm_response |-> NoReview, raised |-> "", step |-> "",
     review |-> NoReview, returned |-> NoReview, wrote |-> FALSE]

\* no request of GET /suppliers/{supplier_id}/risk yet
NoHttp ==
    [called |-> FALSE, supplier_id |-> "", db_ok |-> TRUE, found |-> FALSE, status |-> 0,
     body |-> ""]

\* no run of compute_risk_score yet
NoScore ==
    [called |-> FALSE, news_items |-> << >>, item_scores |-> << >>, score |-> 0,
     snippet |-> << >>, raised |-> ""]

\* no run of the risk_score job in progress, none done
NoJob ==
    [pc |-> "idle", supplier_id |-> "", news_items |-> << >>, score |-> 0,
     snippet |-> << >>, raised |-> "", step |-> "", runs |-> 0, lines_before |-> << >>]

\* an empty llm_scorer cache and no batch request
NoScorer ==
    [cache |-> << >>, pc |-> "idle", documents |-> << >>, scores |-> << >>,
     invoked |-> << >>, started_at |-> 0, batches |-> 0, raised |-> ""]

\* no call of split_text
NoSplit ==
    [pc |-> "idle", text |-> << >>, chunk_size |-> 1, chunk_overlap |-> 0,
     start |-> 0, chunks |-> << >>]

\* nothing ingested, nothing stored, no job, batch or split under way
NoJobs ==
    /\ airweave = << >>
    /\ feature_store = << >>
    /\ job = NoJob
    /\ scorer = NoScorer
    /\ split = NoSplit

\* the documents of the review service's store
ServiceDocs ==
    {[supplier_id |-> KnownSupplier, collection |-> "internal", doc_type |-> "sap_data",
      title |-> "", content |-> "On-time delivery rate 94%",
      timestamp |-> "2025-06-15", source |-> "SAP"],
     [supplier_id |-> KnownSupplier, collection |-> "internal", doc_type |-> "email",
      title |-> "", content |-> "Production delay reported",
      timestamp |-> "2025-07-01", source |-> "Operations Team"],
     [supplier_id |-> KnownSupplier, collection |-> "news", doc_type |-> "news",
      title |-> "15% revenue growth", content |-> "strong financial performance",
      timestamp |-> "2025-07-10", source |-> "Business Wire"]}

\* LLMReviewer.__init__: the context provider exists when both URLs are
\* given, its redis client when redis_url is given too
Configs ==
    {c \in [context_provider : BOOLEAN, redis : BOOLEAN, client : BOOLEAN] :
        c.redis => c.context_provider}

Init ==
    /\ \E c \in Configs :
          /\ context_provider = c.context_provider
          /\ redis = c.redis
          /\ client = c.client
    /\ qdrant = ServiceDocs
    /\ updates = 0
    /\ redis_up = TRUE
    /\ redis_store = << >>
    /\ clock = 0
    /\ req = [p \in Procs |-> Idle]
    /\ api = NoCall
    /\ post = NoPost
    /\ supplier_risk_profiles = << >>
    /\ http = NoHttp
    /\ scored = NoScore
    /\ NoJobs

config_vars == <<context_provider, redis, client>>
call_vars == <<post, supplier_risk_profiles, http, scored>>
job_vars == <<airweave, feature_store, job, scorer, split>>
env_vars == <<qdrant, updates, redis_up, clock>>

Fail(p, step, error) ==
    req' = [req EXCEPT ![p].pc = "failed", ![p].step = step, ![p].error = error]

(* ------------------------ review_supplier ----------------------------- *)

\* GET /review/{supplier_id}: a caller enters review_supplier
review_supplier_start(p, supplier_id) ==
    /\ req[p].pc = "idle"
    /\ req' = [req EXCEPT ![p].pc = "get_context", ![p].supplier_id = supplier_id]
    /\ UNCHANGED <<config_vars, env_vars, redis_store, api, call_vars, job_vars>>

\* context = await self.get_context_bundle(supplier_id)
review_supplier_get_context(p) ==
    /\ req[p].pc = "get_context"
    /\ IF ~context_provider
       THEN req' = [req EXCEPT ![p].pc = "check_cache",
                               ![p].context = MockContext(req[p].supplier_id)]
       ELSE LET supplier_core == get_supplier_core(req[p].supplier_id)
            IN IF supplier_core = {}
               THEN Fail(p, "get_context", "ValueError")
               ELSE \E core \in supplier_core :
                    \E news_hits \in search(req[p].supplier_id, "news") :
                    \E internal_hits \in search(req[p].supplier_id, "internal") :
                       LET news == get_recent_news(news_hits)
                           internal_docs == get_internal_docs(internal_hits)
                       IN req' = [req EXCEPT
                                ![p].pc = "check_cache",
                                ![p].news = news,
                                ![p].internal_docs = internal_docs,
                                ![p].context = BuildContext(core, internal_docs, news)]
    /\ UNCHANGED <<config_vars, env_vars, redis_store, api, call_vars, job_vars>>

\* the lookup outcome recorded for a call: hit, expired (an entry past its
\* TTL), miss (no entry), nocache (no redis client)
LookupOutcome(store, t, key, cached) ==
    IF ~redis THEN "nocache"
    ELSE IF cached.found THEN "hit"
    ELSE IF key \in DOMAIN store THEN "expired"
    ELSE "miss"

\* lines 133-140: hash the bundle, look the review up, return it on a hit
review_supplier_check_cache(p) ==
    /\ req[p].pc = "check_cache"
    /\ IF ~context_provider
       THEN req' = [req EXCEPT ![p].pc = "call_llm", ![p].lookup = "nocache"]
       ELSE LET evidence_hash == compute_evidence_hash(req[p].context)
                cached_review == get_cached_review(redis_store, now,
                                                   req[p].supplier_id, evidence_hash)
                outcome == LookupOutcome(redis_store, now,
                                         cache_key(req[p].supplier_id, evidence_hash),
                                         cached_review)
            IN IF cached_review.raised # ""
               THEN req' = [req EXCEPT ![p].pc = "failed",
                                       ![p].step = "cache_lookup",
                                       ![p].error = cached_review.raised,
                                       ![p].evidence_hash = evidence_hash,
                                       ![p].lookup = "error"]
               ELSE IF CachedIsHit(cached_review)
               THEN IF ValidReview(cached_review.value)
                    THEN req' = [req EXCEPT ![p].pc = "done",
                                            ![p].evidence_hash = evidence_hash,
                                            ![p].lookup = outcome,
                                            ![p].result = RiskReview(cached_review.value)]
                    ELSE req' = [req EXCEPT ![p].pc = "failed",
                                            ![p].step = "cache_lookup",
                                            ![p].error = "ValidationError",
                                            ![p].evidence_hash = evidence_hash,
                                            ![p].lookup = outcome]
               ELSE req' = [req EXCEPT ![p].pc = "call_llm",
                                       ![p].evidence_hash = evidence_hash,
                                       ![p].lookup = outcome]
    /\ UNCHANGED <<config_vars, env_vars, redis_store, api, call_vars, job_vars>>

\* lines 142-152: the assessment backend.  With a client, _call_openai either
\* raises HTTPException(500) or returns message.content, a string; without
\* one, _mock_response returns a dict.
review_supplier_call_llm(p) ==
    /\ req[p].pc = "call_llm"
    /\ IF client
       THEN \/ req' = [req EXCEPT ![p].pc = "failed", ![p].step = "call_llm",
                                  ![p].error = "HTTPException",
                                  ![p].calls = @ + 1]
            \/ req' = [req EXCEPT ![p].pc = "postprocess",
                                  ![p].response = [kind |-> "str"],
                                  ![p].calls = @ + 1]
       ELSE req' = [req EXCEPT
                ![p].pc = "postprocess",
                ![p].response = [kind |-> "dict",
                                 body |-> mock_response(req[p].context.supplier_core.name)],
                ![p].calls = @ + 1]
    /\ UNCHANGED <<config_vars, env_vars, redis_store, api, call_vars, job_vars>>

\* Finish as it would be if the response were cached before it is
\* post-processed
Finish_cache_first(response, supplier_id, evidence_hash, store, t, err) ==
    LET w == IF context_provider
             THEN cache_review(store, t, supplier_id, evidence_hash, response)
             ELSE [raised |-> "", store |-> store]
    IN IF w.raised # ""
       THEN [raised |-> w.raised, step |-> "cache_write", review |-> NoReview,
             store |-> store, wrote |-> FALSE]
       ELSE IF response.kind = "str"
       THEN [raised |-> "TypeError", step |-> "postprocess", review |-> NoReview,
             store |-> w.store, wrote |-> redis]
       ELSE LET r == postprocess_review(response.body, t, err)
            IN [raised |-> r.raised, step |-> IF r.raised # "" THEN "postprocess" ELSE "",
                review |-> r.review, store |-> w.store, wrote |-> redis]

\* lines 154-165 on a backend response: post-process, cache the review,
\* return it.  The outcome: the exception raised and the step raising it,
\* the review returned, the store afterwards, whether the cache was written.
\* llm_response["dimensions"] on a string raises TypeError.
Finish(response, supplier_id, evidence_hash, store, t, err) ==
    IF response.kind = "str"
    THEN [raised |-> "TypeError", step |-> "postprocess", review |-> NoReview,
          store |-> store, wrote |-> FALSE]
    ELSE LET r == postprocess_review(response.body, t, err)
         IN IF r.raised # ""
            THEN [raised |-> r.raised, step |-> "postprocess", review |-> NoReview,
                  store |-> store, wrote |-> FALSE]
            ELSE IF ~context_provider
            THEN [raised |-> "", step |-> "", review |-> r.review,
                  store |-> store, wrote |-> FALSE]
            ELSE LET w == cache_review(store, t, supplier_id, evidence_hash, r.review)
                 IN IF w.raised # ""
                    THEN [raised |-> w.raised, step |-> "cache_write",
                          review |-> NoReview, store |-> store, wrote |-> FALSE]
                    ELSE [raised |-> "", step |-> "", review |-> r.review,
                          store |-> w.store, wrote |-> redis]

\* lines 154-165 of a caller's review_supplier
review_supplier_finish(p) ==
    /\ req[p].pc = "postprocess"
    /\ \E err \in FloatErrors :
          LET f == Finish(req[p].response, req[p].supplier_id, req[p].evidence_hash,
                          redis_store, now, err)
          IN IF f.raised # ""
             THEN Fail(p, f.step, f.raised) /\ UNCHANGED redis_store
             ELSE /\ redis_store' = f.store
                  /\ req' = [req EXCEPT ![p].pc = "done",
                                        ![p].result = f.review,
                                        ![p].wrote = f.wrote]
    /\ UNCHANGED <<config_vars, env_vars, api, call_vars, job_vars>>

\* the caller receives the review or the exception
review_supplier_return(p) ==
    /\ req[p].pc \in {"done", "failed"}
    /\ req' = [req EXCEPT ![p] = Idle]
    /\ UNCHANGED <<config_vars, env_vars, redis_store, api, call_vars, job_vars>>

\* store_review_op of supplier_review_job on the review llm_review_op got
\* from review_supplier: it logs the feature keys and the scores, and writes
\* to no store
store_review_op(p) ==
    /\ req[p].pc = "done"
    /\ ~req[p].logged
    /\ req' = [req EXCEPT ![p].logged = TRUE]
    /\ UNCHANGED <<config_vars, env_vars, redis_store, api, call_vars, job_vars>>

(* ---------------------------- environment ----------------------------- *)

\* time passes; redis expires an entry once its TTL has elapsed
Tick ==
    /\ clock < MaxTicks
    /\ clock' = clock + 1
    /\ UNCHANGED <<config_vars, qdrant, updates, redis_up, redis_store, req, api, call_vars, job_vars>>

\* the cache store becomes unreachable, or reachable again
RedisOutage ==
    /\ redis
    /\ redis_up' = ~redis_up
    /\ UNCHANGED <<config_vars, qdrant, updates, clock, redis_store, req, api, call_vars, job_vars>>

\* the hashes review_supplier can compute for the known supplier from the
\* documents of the review service's store
ServiceHashes ==
    {compute_evidence_hash(BuildContext(core, get_internal_docs(i), get_recent_news(n))) :
        core \in get_supplier_core(KnownSupplier),
        i \in Hits(ServiceDocs, KnownSupplier, "internal"),
        n \in Hits(ServiceDocs, KnownSupplier, "news")}

\* review dicts handed to cache_review: the dict of test_caching, a review
\* in JSON form (ISO timestamp), and review.dict() as review_supplier
\* passes it (datetime timestamp)
TestReview == [score |-> 50]
ReviewDict(evidence_hash) ==
    [postprocess_review(mock_response("Metal-Can Co"), 0, 0).review
        EXCEPT !.evidence_hash = evidence_hash]
ReviewJson(evidence_hash) ==
    [ReviewDict(evidence_hash) EXCEPT !.timestamp = [iso |-> 0]]
ReviewInputs(evidence_hash) ==
    {TestReview, ReviewJson(evidence_hash), ReviewDict(evidence_hash)}
\* the review-shaped ones among them
Reviews(evidence_hash) == {ReviewJson(evidence_hash), ReviewDict(evidence_hash)}

\* a direct call of ContextProvider.cache_review
cache_review_call(supplier_id, evidence_hash, review) ==
    /\ context_provider
    /\ redis_store' = cache_review(redis_store, now, supplier_id, evidence_hash, review).store
    /\ UNCHANGED <<config_vars, env_vars, req, api, call_vars, job_vars>>

Next ==
    \/ \E p \in Procs : \E s \in Suppliers : review_supplier_start(p, s)
    \/ \E p \in Procs : review_supplier_get_context(p)
    \/ \E p \in Procs : review_supplier_check_cache(p)
    \/ \E p \in Procs : review_supplier_call_llm(p)
    \/ \E p \in Procs : review_supplier_finish(p)
    \/ \E p \in Procs : review_supplier_return(p)
    \/ \E p \in Procs : store_review_op(p)
    \/ \E h \in ServiceHashes : \E r \in Reviews(h) :
          cache_review_call(KnownSupplier, h, r)
    \/ Tick
    \/ RedisOutage

Spec == Init /\ [][Next]_vars

(* ------------------- the cache API used on its own -------------------- *)

\* test_caching: cache_review, then get_cached_review of the same key and of
\* a hash that was never stored for the supplier, with nothing in between
test_caching(supplier_id, evidence_hash, review, other_hash) ==
    /\ context_provider
    /\ other_hash # evidence_hash
    /\ cache_key(supplier_id, other_hash) \notin DOMAIN redis_store
    /\ LET w == cache_review(redis_store, now, supplier_id, evidence_hash, review)
           cached == get_cached_review(w.store, now, supplier_id, evidence_hash)
           missing == get_cached_review(w.store, now, supplier_id, other_hash)
       IN /\ redis_store' = w.store
          /\ api' = IF w.raised # ""
                    THEN [called |-> TRUE, review |-> review, raised |-> w.raised,
                          cached |-> NoReview, missing |-> NoReview]
                    ELSE [called |-> TRUE, review |-> review, raised |-> "",
                          cached |-> cached.value, missing |-> missing.value]
    /\ UNCHANGED <<config_vars, env_vars, req, call_vars, job_vars>>

CacheInit ==
    /\ context_provider = TRUE
    /\ redis \in BOOLEAN
    /\ client = FALSE
    /\ qdrant = ServiceDocs
    /\ updates = 0
    /\ redis_up = TRUE
    /\ redis_store = << >>
    /\ clock = 0
    /\ req = [p \in Procs |-> Idle]
    /\ api = NoCall
    /\ post = NoPost
    /\ supplier_risk_profiles = << >>
    /\ http = NoHttp
    /\ scored = NoScore
    /\ NoJobs

CacheNext ==
    \/ \E h \in ServiceHashes : \E r \in ReviewInputs(h) :
       \E other \in ServiceHashes \cup {"nonexistent_hash"} :
          test_caching(KnownSupplier, h, r, other)
    \/ Tick
    \/ RedisOutage

SpecCache == CacheInit /\ [][CacheNext]_vars

(* ------------------- bundles over a changing store -------------------- *)

Contents == {"On-time delivery rate 94%", "Production delay reported"}
Timestamps == {"2025-06-15", "2025-07-01"}

Doc(collection, content, timestamp) ==
    [supplier_id |-> KnownSupplier, collection |-> collection,
     doc_type |-> IF collection = "news" THEN "news" ELSE "email",
     title |-> "Update", content |-> content, timestamp |-> timestamp,
     source |-> "SAP"]

DocPool ==
    {Doc(c, x, t) : c \in {"internal", "news"}, x \in Contents, t \in Timestamps}

\* the number of fields among collection, content, timestamp in which two
\* documents differ
Differences(d, e) ==
    Cardinality({f \in {"collection", "content", "timestamp"} : d[f] # e[f]})

\* a document of the store is re-ingested with one field changed
update_document(d, e) ==
    /\ updates < MaxUpdates
    /\ d \in qdrant
    /\ e \notin qdrant
    /\ Differences(d, e) = 1
    /\ qdrant' = (qdrant \ {d}) \cup {e}
    /\ updates' = updates + 1
    /\ UNCHANGED <<config_vars, redis_up, clock, redis_store, req, api, call_vars, job_vars>>

BundleInit ==
    /\ context_provider = TRUE
    /\ redis = FALSE
    /\ client = FALSE
    /\ qdrant \in {S \in SUBSET DocPool : Cardinality(S) <= MaxDocs}
    /\ updates = 0
    /\ redis_up = TRUE
    /\ redis_store = << >>
    /\ clock = 0
    /\ req = [p \in Procs |-> Idle]
    /\ api = NoCall
    /\ post = NoPost
    /\ supplier_risk_profiles = << >>
    /\ http = NoHttp
    /\ scored = NoScore
    /\ NoJobs

BundleNext ==
    \/ \E p \in Procs : review_supplier_start(p, KnownSupplier)
    \/ \E p \in Procs : review_supplier_get_context(p)
    \/ \E p \in Procs : review_supplier_check_cache(p)
    \/ \E d \in DocPool : \E e \in DocPool : update_document(d, e)

SpecBundle == BundleInit /\ [][BundleNext]_vars

(* ---------------- reviews over stores of any content ------------------ *)

\* a reviewer with a context provider, over a store that may hold no
\* document at all for the supplier
ReviewInit ==
    /\ context_provider = TRUE
    /\ redis \in BOOLEAN
    /\ client \in BOOLEAN
    /\ qdrant \in {S \in SUBSET DocPool : Cardinality(S) <= MaxDocs}
    /\ updates = 0
    /\ redis_up = TRUE
    /\ redis_store = << >>
    /\ clock = 0
    /\ req = [p \in Procs |-> Idle]
    /\ api = NoCall
    /\ post = NoPost
    /\ supplier_risk_profiles = << >>
    /\ http = NoHttp
    /\ scored = NoScore
    /\ NoJobs

ReviewNext ==
    \/ \E p \in Procs : \E s \in Suppliers : review_supplier_start(p, s)
    \/ \E p \in Procs : review_supplier_get_context(p)
    \/ \E p \in Procs : review_supplier_check_cache(p)
    \/ \E p \in Procs : review_supplier_call_llm(p)
    \/ \E p \in Procs : review_supplier_finish(p)
    \/ \E p \in Procs : review_supplier_return(p)

SpecReview == ReviewInit /\ [][ReviewNext]_vars

(* --------------------------- HTTP endpoints --------------------------- *)

\* the risk assessments a job may hand to store_risk_profile
RiskJsons == {"risk-a", "risk-b"}

\* store_risk_profile: session.add of a new row with the current time as
\* its timestamp, and commit; supplier_id is a foreign key into suppliers
store_risk_profile(supplier_id, risk_json) ==
    /\ Len(supplier_risk_profiles) < MaxProfiles
    /\ supplier_id \in {row.id : row \in supplier_table}
    /\ supplier_risk_profiles' =
          Append(supplier_risk_profiles,
                 [id |-> Len(supplier_risk_profiles) + 1, supplier_id |-> supplier_id,
                  timestamp |-> now, risk_json |-> risk_json])
    /\ UNCHANGED <<config_vars, env_vars, redis_store, req, api, post, http, scored, job_vars>>

\* ProfilesOf as it would be without the where clause
ProfilesOf_any_supplier(rows, supplier_id) ==
    {rows[i] : i \in DOMAIN rows}

\* .where(SupplierRiskProfile.supplier_id == supplier_id)
ProfilesOf(rows, supplier_id) ==
    {rows[i] : i \in {j \in DOMAIN rows : rows[j].supplier_id = supplier_id}}

\* .order_by(timestamp.desc()).limit(1): a row whose timestamp no other row
\* exceeds; the database picks any one of several rows with that timestamp
LatestOf(profiles) ==
    {r \in profiles : \A o \in profiles : o.timestamp <= r.timestamp}

\* GET /suppliers/{supplier_id}/risk.  The HTTPException(404) of line 31 is
\* raised inside the try block and HTTPException is an Exception: the handler
\* at line 37 catches it and raises HTTPException(500) in its place.
get_supplier_risk(supplier_id, db_ok) ==
    /\ LET profiles == ProfilesOf(supplier_risk_profiles, supplier_id)
           found == profiles # {}
           \* what the try block raises: db.execute failing, or line 31
           raised == IF ~db_ok THEN "SQLAlchemyError"
                     ELSE IF ~found THEN "HTTPException(404)"
                     ELSE ""
           \* `except Exception` turns whatever was raised into a 500
           status == IF raised # "" THEN 500 ELSE 200
       IN IF status = 200
          THEN \E profile \in LatestOf(profiles) :
                  http' = [called |-> TRUE, supplier_id |-> supplier_id, db_ok |-> db_ok,
                           found |-> found, status |-> status,
                           body |-> profile.risk_json]
          ELSE http' = [called |-> TRUE, supplier_id |-> supplier_id, db_ok |-> db_ok,
                        found |-> found, status |-> status, body |-> ""]
    /\ UNCHANGED <<config_vars, env_vars, redis_store, req, api, post,
                   supplier_risk_profiles, scored, job_vars>>

\* GET /review/{supplier_id}: the status of the response to a caller whose
\* review_supplier is over.  A returned review is a 200; an exception that
\* leaves the handler, HTTPException(500) or any other, is a 500.
get_supplier_review_status(p) ==
    IF req[p].pc = "done" THEN 200 ELSE 500

\* the review app builds its reviewer with no argument: no client, no
\* context provider
HttpInit ==
    /\ context_provider = FALSE
    /\ redis = FALSE
    /\ client = FALSE
    /\ qdrant = ServiceDocs
    /\ updates = 0
    /\ redis_up = TRUE
    /\ redis_store = << >>
    /\ clock = 0
    /\ req = [p \in Procs |-> Idle]
    /\ api = NoCall
    /\ post = NoPost
    /\ supplier_risk_profiles = << >>
    /\ http = NoHttp
    /\ scored = NoScore
    /\ NoJobs

\* supplier ids of the jobs and of the requests: those of the suppliers
\* table and one that is not in it
ProfileSuppliers == {row.id : row \in supplier_table} \cup {"SUP-404"}

HttpNext ==
    \/ \E p \in Procs : \E s \in Suppliers : review_supplier_start(p, s)
    \/ \E p \in Procs : review_supplier_get_context(p)
    \/ \E p \in Procs : review_supplier_check_cache(p)
    \/ \E p \in Procs : review_supplier_call_llm(p)
    \/ \E p \in Procs : review_supplier_finish(p)
    \/ \E p \in Procs : review_supplier_return(p)
    \/ \E s \in ProfileSuppliers : \E risk_json \in RiskJsons :
          store_risk_profile(s, risk_json)
    \/ \E s \in ProfileSuppliers : \E db_ok \in BOOLEAN : get_supplier_risk(s, db_ok)

SpecHttp == HttpInit /\ [][HttpNext]_vars

\* the jobs storing profiles and the requests for them, as time passes
SinkNext ==
    \/ \E s \in ProfileSuppliers : \E risk_json \in RiskJsons :
          store_risk_profile(s, risk_json)
    \/ \E s \in ProfileSuppliers : \E db_ok \in BOOLEAN : get_supplier_risk(s, db_ok)
    \/ Tick

SpecSink == HttpInit /\ [][SinkNext]_vars

(* ------------- the classifier on any backend response ---------------- *)

\* a dimension entry with a numeric score
Entry(score) == [score |-> score, reason |-> "Insufficient data"]

\* the scores of the conforming responses, in hundredths: the ends of the
\* range, the grade thresholds, and 0.02, whose products fall half way
\* between two hundredths
GridScores == {0, 2, 33, 66, 100}

\* responses with the five dimensions, each with a score in [0, 1]
ConformingResponses ==
    {[mock_response("Metal-Can Co") EXCEPT
         !.dimensions = [dim \in Dimensions |-> Entry(f[dim])]] :
        f \in [Dimensions -> GridScores]}

\* responses of a non-conforming backend: the mock response with one
\* dimension out of range, not a number or missing, or with one dimension
\* more
NonConformingResponses ==
    LET base == mock_response("Metal-Can Co")
    IN {[base EXCEPT !.dimensions[dim].score = v] :
            dim \in Dimensions, v \in {-10, 150}}
       \cup {[base EXCEPT !.dimensions[dim] =
                    [score_text |-> "high", reason |-> "Insufficient data"]] :
            dim \in Dimensions}
       \cup {[base EXCEPT !.dimensions =
                    [d \in Dimensions \ {dim} |-> base.dimensions[d]]] :
            dim \in Dimensions}
       \cup {[base EXCEPT !.dimensions =
                    [d \in Dimensions \cup {"esg"} |->
                        IF d = "esg" THEN Entry(50) ELSE base.dimensions[d]]]}

BackendResponses == ConformingResponses \cup NonConformingResponses

\* lines 154-165 run on a dict response for the known supplier: what
\* _postprocess_review gave (review), what review_supplier returns
\* (returned), what was raised and where, whether the cache was written
postprocess_call(llm_response, evidence_hash, err) ==
    /\ ~post.called
    /\ LET r == postprocess_review(llm_response, now, err)
           f == Finish([kind |-> "dict", body |-> llm_response], KnownSupplier,
                       evidence_hash, redis_store, now, err)
       IN /\ post' = [called |-> TRUE, llm_response |-> llm_response,
                      raised |-> f.raised, step |-> f.step, review |-> r.review,
                      returned |-> f.review, wrote |-> f.wrote]
          /\ redis_store' = f.store
    /\ UNCHANGED <<config_vars, env_vars, req, api, supplier_risk_profiles, http, scored, job_vars>>

PostInit ==
    /\ \E c \in Configs :
          /\ context_provider = c.context_provider
          /\ redis = c.redis
          /\ client = c.client
    /\ qdrant = ServiceDocs
    /\ updates = 0
    /\ redis_up = TRUE
    /\ redis_store = << >>
    /\ clock = 0
    /\ req = [p \in Procs |-> Idle]
    /\ api = NoCall
    /\ post = NoPost
    /\ supplier_risk_profiles = << >>
    /\ http = NoHttp
    /\ scored = NoScore
    /\ NoJobs

PostNext ==
    \E r \in BackendResponses : \E h \in ServiceHashes : \E err \in FloatErrors :
        postprocess_call(r, h, err)

SpecPost == PostInit /\ [][PostNext]_vars

(* ------------------- dagster_jobs/ops/risk_score.py ------------------- *)

\* WEIGHTS['tone'] in dict order: range in hundredths, weight in tenths
TONE_WEIGHTS ==
    <<[category |-> "very_negative", min_val |-> -100, max_val |-> -50, weight |-> 20],
      [category |-> "negative", min_val |-> -50, max_val |-> -10, weight |-> 10],
      [category |-> "neutral", min_val |-> -10, max_val |-> 10, weight |-> 0],
      [category |-> "positive", min_val |-> 10, max_val |-> 50, weight |-> -5],
      [category |-> "very_positive", min_val |-> 50, max_val |-> 100, weight |-> -10]>>

\* WEIGHTS['recency'] in dict order: hours, weight in tenths; the last
\* range has float('inf') as its end
RECENCY_WEIGHTS ==
    <<[category |-> "last_day", min_hours |-> 0, max_hours |-> 24, unbounded |-> FALSE,
       weight |-> 10],
      [category |-> "last_week", min_hours |-> 24, max_hours |-> 168, unbounded |-> FALSE,
       weight |-> 5],
      [category |-> "older", min_hours |-> 168, max_hours |-> 168, unbounded |-> TRUE,
       weight |-> 1]>>

\* float(metadata.get('tone', -1.0)), in hundredths
ToneOf(metadata) == IF "tone" \in DOMAIN metadata THEN metadata.tone ELSE -100

\* hours_old: the age of metadata['published'], now itself when absent
HoursOld(metadata) == IF "published" \in DOMAIN metadata THEN metadata.published ELSE 0

\* ToneScore as it would be if the last matching category were taken
ToneScore_last_match(tone) ==
    LET hit == {i \in DOMAIN TONE_WEIGHTS :
                    TONE_WEIGHTS[i].min_val <= tone /\ tone <= TONE_WEIGHTS[i].max_val}
    IN IF hit = {} THEN 0
       ELSE TONE_WEIGHTS[CHOOSE i \in hit : \A j \in hit : j <= i].weight

\* lines 110-114: score after the tone loop, the weight of the first
\* category with min_val <= tone <= max_val, 0.0 when there is none; tenths
ToneScore(tone) ==
    LET hit == {i \in DOMAIN TONE_WEIGHTS :
                    TONE_WEIGHTS[i].min_val <= tone /\ tone <= TONE_WEIGHTS[i].max_val}
    IN IF hit = {} THEN 0
       ELSE TONE_WEIGHTS[CHOOSE i \in hit : \A j \in hit : i <= j].weight

\* lines 122-127: score *= weight of the first category with
\* min_hours <= hours_old < max_hours; the score is left as it is when
\* there is none.  Tenths times tenths: the result is in hundredths.
RecencyScaled(score, hours_old) ==
    LET hit == {i \in DOMAIN RECENCY_WEIGHTS :
                    /\ RECENCY_WEIGHTS[i].min_hours <= hours_old
                    /\ (RECENCY_WEIGHTS[i].unbounded
                            \/ hours_old < RECENCY_WEIGHTS[i].max_hours)}
    IN IF hit = {} THEN score * 10
       ELSE score * RECENCY_WEIGHTS[CHOOSE i \in hit : \A j \in hit : i <= j].weight

\* metadata['published'] is an ISO timestamp; a value that is not carries
\* its text under published_text
Parsable(metadata) == "published_text" \notin DOMAIN metadata

\* line 118: datetime.fromisoformat raises ValueError on a published value
\* that is not an ISO timestamp; the loop has no handler, so the first such
\* item ends the function
ScoreError(news_items) ==
    IF \E i \in DOMAIN news_items : ~Parsable(news_items[i].metadata)
    THEN "ValueError" ELSE ""

\* lines 99-129: the final score of one item, in hundredths
ItemScore(item) ==
    RecencyScaled(ToneScore(ToneOf(item.metadata)), HoursOld(item.metadata))

\* item['content'][:500], contents being sequences of characters
SnippetLength == 500
Snippet(content) ==
    SubSeq(content, 1, IF Len(content) < SnippetLength THEN Len(content) ELSE SnippetLength)

RECURSIVE ScoreLoop(_, _, _)
\* lines 98-135: the loop over the items from max_score and top_snippet
ScoreLoop(news_items, max_score, top_snippet) ==
    IF news_items = << >>
    THEN [score |-> max_score, snippet |-> top_snippet]
    ELSE LET item == Head(news_items)
             score == ItemScore(item)
         IN IF score > max_score
            THEN ScoreLoop(Tail(news_items), score, Snippet(item.content))
            ELSE ScoreLoop(Tail(news_items), max_score, top_snippet)

\* compute_risk_score: (max_score, top_snippet), the score in hundredths
compute_risk_score(news_items) ==
    IF news_items = << >>
    THEN [score |-> 0, snippet |-> << >>]
    ELSE ScoreLoop(news_items, 0, << >>)

\* contents: two short ones and one of 501 characters
LongContent == [i \in 1..(SnippetLength + 1) |-> "x"]
ItemContents == {<<"A">>, <<"B">>, LongContent}

\* metadata with the given tones and ages, each of the two possibly absent
MetadataOver(tones, ages) ==
    {[tone |-> t, published |-> a] : t \in tones, a \in ages}
    \cup {[tone |-> t] : t \in tones}
    \cup {[published |-> a] : a \in ages}
    \cup {<< >>}

\* single items: tones at and between the category bounds, ages at and
\* around the recency bounds
ItemPool ==
    {[content |-> c, metadata |-> m] :
        c \in ItemContents,
        m \in MetadataOver({-100, -80, -50, -30, -10, 0, 10, 30, 50, 80, 100},
                           {0, 10, 23, 24, 100, 167, 168, 500})}

\* the items of the longer lists: scores 2.0, 1.0 (twice), 0.5, -0.5, -0.25
RankPool ==
    {[content |-> c, metadata |-> [tone |-> t, published |-> a]] :
        c \in {<<"A">>, <<"B">>}, t \in {-80, -30, 30}, a \in {10, 100}}

\* items whose published value cannot be parsed
UnparsablePool ==
    {[content |-> <<"C">>, metadata |-> [tone |-> t, published_text |-> "not-a-date"]] :
        t \in {-80, 30}}

\* the lists handed to compute_risk_score: well-formed ones, and lists of
\* one or two items with an unparsable item in them
NewsItemLists ==
    {<< >>} \cup {<<i>> : i \in ItemPool}
    \cup UNION {[1..n -> RankPool] : n \in 2..MaxItems}
    \cup {<<b>> : b \in UnparsablePool}
    \cup {<<g, b>> : g \in RankPool, b \in UnparsablePool}
    \cup {<<b, g>> : g \in RankPool, b \in UnparsablePool}

\* one run of compute_risk_score; item_scores are the final scores of the
\* items as logged at line 129
compute_risk_score_call(news_items) ==
    /\ ~scored.called
    /\ IF ScoreError(news_items) # ""
       THEN scored' = [called |-> TRUE, news_items |-> news_items,
                       item_scores |-> << >>, score |-> 0, snippet |-> << >>,
                       raised |-> ScoreError(news_items)]
       ELSE LET result == compute_risk_score(news_items)
            IN scored' = [called |-> TRUE, news_items |-> news_items,
                          item_scores |-> [i \in DOMAIN news_items |->
                                              ItemScore(news_items[i])],
                          score |-> result.score, snippet |-> result.snippet,
                          raised |-> ""]
    /\ UNCHANGED <<config_vars, env_vars, redis_store, req, api, post,
                   supplier_risk_profiles, http, job_vars>>

ScoreInit ==
    /\ context_provider = FALSE
    /\ redis = FALSE
    /\ client = FALSE
    /\ qdrant = ServiceDocs
    /\ updates = 0
    /\ redis_up = TRUE
    /\ redis_store = << >>
    /\ clock = 0
    /\ req = [p \in Procs |-> Idle]
    /\ api = NoCall
    /\ post = NoPost
    /\ supplier_risk_profiles = << >>
    /\ http = NoHttp
    /\ scored = NoScore
    /\ NoJobs

ScoreNext == \E news_items \in NewsItemLists : compute_risk_score_call(news_items)

SpecScore == ScoreInit /\ [][ScoreNext]_vars

(* ------------------------- processors/text.py ------------------------- *)

\* a slice bound as Python takes it: counted from the end when negative,
\* and kept within the sequence
SliceBound(i, n) ==
    IF i < 0 THEN (IF i + n < 0 THEN 0 ELSE i + n) ELSE (IF i > n THEN n ELSE i)

\* text[a:b]
Slice(text, a, b) ==
    LET lo == SliceBound(a, Len(text))
        hi == SliceBound(b, Len(text))
    IN IF lo < hi THEN SubSeq(text, lo + 1, hi) ELSE << >>

\* chunk.rfind('.'): the 0-based index of the last period, -1 without one
rfind_period(chunk) ==
    LET at == {i \in DOMAIN chunk : chunk[i] = "."}
    IN IF at = {} THEN -1 ELSE (CHOOSE i \in at : \A j \in at : j <= i) - 1

\* lines 39-47: the end of the chunk that begins at start
ChunkEnd(text, chunk_size, start) ==
    LET end == start + chunk_size
        last_period == rfind_period(Slice(text, start, end))
    IN IF end < Len(text) /\ last_period > 0 THEN start + last_period + 1 ELSE end

\* texts of letters and periods
Texts == UNION {[1..n -> {"a", "."}] : n \in 0..MaxTextLen}

\* TextProcessor(chunk_size, chunk_overlap) with chunk_size > chunk_overlap >= 0
SplitConfigs ==
    {c \in [chunk_size : 1..MaxChunkSize, chunk_overlap : 0..MaxChunkSize] :
        c.chunk_size > c.chunk_overlap}

\* split_text is called: lines 31-36
split_text_call(text, c) ==
    /\ split.pc = "idle"
    /\ split' = [pc |-> IF text = << >> THEN "returned" ELSE "loop", text |-> text,
                 chunk_size |-> c.chunk_size, chunk_overlap |-> c.chunk_overlap,
                 start |-> 0, chunks |-> << >>]
    /\ UNCHANGED <<config_vars, env_vars, redis_store, req, api, call_vars,
                   airweave, feature_store, job, scorer>>

\* lines 38-50: one iteration of the loop
split_text_iterate ==
    /\ split.pc = "loop"
    /\ split.start < Len(split.text)
    /\ Len(split.chunks) < MaxChunks
    /\ LET end == ChunkEnd(split.text, split.chunk_size, split.start)
       IN split' = [split EXCEPT
                      !.chunks = Append(@, Slice(split.text, split.start, end)),
                      !.start = end - split.chunk_overlap]
    /\ UNCHANGED <<config_vars, env_vars, redis_store, req, api, call_vars,
                   airweave, feature_store, job, scorer>>

\* line 52: the loop is over, return chunks
split_text_return ==
    /\ split.pc = "loop"
    /\ ~(split.start < Len(split.text))
    /\ split' = [split EXCEPT !.pc = "returned"]
    /\ UNCHANGED <<config_vars, env_vars, redis_store, req, api, call_vars,
                   airweave, feature_store, job, scorer>>

SplitInit ==
    /\ context_provider = FALSE
    /\ redis = FALSE
    /\ client = FALSE
    /\ qdrant = ServiceDocs
    /\ updates = 0
    /\ redis_up = TRUE
    /\ redis_store = << >>
    /\ clock = 0
    /\ req = [p \in Procs |-> Idle]
    /\ api = NoCall
    /\ post = NoPost
    /\ supplier_risk_profiles = << >>
    /\ http = NoHttp
    /\ scored = NoScore
    /\ NoJobs

SplitNext ==
    \/ \E text \in Texts : \E c \in SplitConfigs : split_text_call(text, c)
    \/ split_text_iterate
    \/ split_text_return

SpecSplit == SplitInit /\ [][SplitNext]_vars

(* ------------------------ the risk_score job -------------------------- *)

\* get_supplier_id
get_supplier_id == "SUP-000045"

\* AirweaveClient.query(collection, filters={'supplier_id': supplier_id}):
\* the documents of the collection whose metadata has the key with that
\* value, in the order of _documents
query(documents, collection, supplier_id) ==
    SelectSeq(documents,
              LAMBDA doc : /\ doc.collection = collection
                           /\ "supplier_id" \in DOMAIN doc.metadata
                           /\ doc.metadata.supplier_id = supplier_id)

\* metadata.get('published'): absent; a text fromisoformat rejects
\* (published_text); an ISO timestamp without a UTC offset
\* (published_naive); an ISO timestamp with one (published).  The
\* timestamps are carried as their age in hours.
PublishedKind(metadata) ==
    IF "published_text" \in DOMAIN metadata THEN "unparsable"
    ELSE IF "published_naive" \in DOMAIN metadata THEN "naive"
    ELSE IF "published" \in DOMAIN metadata THEN "aware"
    ELSE "missing"

\* start_time <= published_dt <= end_time, start_time a day before end_time
InLastDay(metadata) == 0 <= metadata.published /\ metadata.published <= 24

\* lines 55-79 on one document: skipped when published is absent (line 62)
\* or fromisoformat raises ValueError (line 77); comparing a timestamp
\* without offset to the timezone-aware bounds raises TypeError, which
\* line 77 does not catch
FetchOne(doc) ==
    LET kind == PublishedKind(doc.metadata)
    IN IF kind \in {"missing", "unparsable"} THEN [raised |-> "", keep |-> FALSE]
       ELSE IF kind = "naive" THEN [raised |-> "TypeError", keep |-> FALSE]
       ELSE [raised |-> "", keep |-> InLastDay(doc.metadata)]

\* fetch_recent_news: the exception that ends it, or filtered_results
fetch_recent_news(documents, supplier_id) ==
    LET results == query(documents, "news", supplier_id)
    IN IF \E i \in DOMAIN results : FetchOne(results[i]).raised # ""
       THEN [raised |-> "TypeError", filtered_results |-> << >>]
       ELSE [raised |-> "",
             filtered_results |-> SelectSeq(results, LAMBDA doc : FetchOne(doc).keep)]

\* documents ingested into Airweave: news of two suppliers with tones in
\* three categories and published values of every kind, and one document
\* of another collection
AirweavePool ==
    {[content |-> <<"A">>, metadata |-> [supplier_id |-> s, tone |-> t] @@ m] :
        s \in {get_supplier_id, "SUP-000046"},
        t \in {-80, -5, 30},
        m \in {[published |-> 10], [published |-> 24], [published |-> 100],
               [published_naive |-> 10], [published_text |-> "not-a-date"], << >>}}

\* AirweaveClient.bulk_ingest, before a run of the job as the test
\* fixture does it
bulk_ingest(collection, document) ==
    /\ job.pc \in {"idle", "finished", "failed"}
    /\ Len(airweave) < MaxNews
    /\ airweave' = Append(airweave, [collection |-> collection] @@ document)
    /\ UNCHANGED <<config_vars, env_vars, redis_store, req, api, call_vars,
                   feature_store, job, scorer, split>>

\* a run of the risk_score job begins: get_supplier_id
risk_score_get_supplier_id ==
    /\ job.pc \in {"idle", "finished", "failed"}
    /\ job.runs < MaxRuns
    /\ job' = [NoJob EXCEPT !.pc = "fetch_recent_news", !.supplier_id = get_supplier_id,
                            !.runs = job.runs + 1, !.lines_before = feature_store]
    /\ UNCHANGED <<config_vars, env_vars, redis_store, req, api, call_vars,
                   airweave, feature_store, scorer, split>>

\* the fetch_recent_news op; an exception fails the run
risk_score_fetch_recent_news ==
    /\ job.pc = "fetch_recent_news"
    /\ LET news == fetch_recent_news(airweave, job.supplier_id)
       IN IF news.raised # ""
          THEN job' = [job EXCEPT !.pc = "failed", !.step = "fetch_recent_news",
                                  !.raised = news.raised]
          ELSE job' = [job EXCEPT !.pc = "compute_risk_score",
                                  !.news_items = news.filtered_results]
    /\ UNCHANGED <<config_vars, env_vars, redis_store, req, api, call_vars,
                   airweave, feature_store, scorer, split>>

\* the compute_risk_score op on the fetched items
risk_score_compute_risk_score ==
    /\ job.pc = "compute_risk_score"
    /\ IF ScoreError(job.news_items) # ""
       THEN job' = [job EXCEPT !.pc = "failed", !.step = "compute_risk_score",
                               !.raised = ScoreError(job.news_items)]
       ELSE LET result == compute_risk_score(job.news_items)
            IN job' = [job EXCEPT !.pc = "store_risk_score", !.score = result.score,
                                  !.snippet = result.snippet]
    /\ UNCHANGED <<config_vars, env_vars, redis_store, req, api, call_vars,
                   airweave, feature_store, scorer, split>>

\* store_risk_score: f"{supplier_id}\t{score}\n" appended to
\* feature_store.features
store_risk_score ==
    /\ job.pc = "store_risk_score"
    /\ feature_store' = Append(feature_store,
                               [supplier_id |-> job.supplier_id, score |-> job.score])
    /\ job' = [job EXCEPT !.pc = "finished"]
    /\ UNCHANGED <<config_vars, env_vars, redis_store, req, api, call_vars,
                   airweave, scorer, split>>

JobInit ==
    /\ context_provider = FALSE
    /\ redis = FALSE
    /\ client = FALSE
    /\ qdrant = ServiceDocs
    /\ updates = 0
    /\ redis_up = TRUE
    /\ redis_store = << >>
    /\ clock = 0
    /\ req = [p \in Procs |-> Idle]
    /\ api = NoCall
    /\ post = NoPost
    /\ supplier_risk_profiles = << >>
    /\ http = NoHttp
    /\ scored = NoScore
    /\ NoJobs

JobNext ==
    \/ \E document \in AirweavePool : bulk_ingest("news", document)
    \/ bulk_ingest("internal", [content |-> <<"A">>,
                                 metadata |-> [supplier_id |-> get_supplier_id,
                                               tone |-> -80, published |-> 10]])
    \/ risk_score_get_supplier_id
    \/ risk_score_fetch_recent_news
    \/ risk_score_compute_risk_score
    \/ store_risk_score

SpecJob == JobInit /\ [][JobNext]_vars

(* -------------------- app/services/llm_scorer.py ---------------------- *)

\* CACHE_TTL: 1 hour
CACHE_TTL == 3600

\* hash(content): equal for equal strings, taken as different for
\* different ones
PyHash(content) == <<"hash", content>>

\* get_cache_key as it would be if the key did not depend on the content
get_cache_key_constant(content) == <<"risk_score:", PyHash("")>>

\* f"risk_score:{hash(content)}"
get_cache_key(content) == <<"risk_score:", PyHash(content)>>

\* no cached score
NoRiskScore == [none |-> TRUE]

\* get_cached_score: RiskScore(**json.loads(cached)) of an unexpired entry,
\* None otherwise
get_cached_score(cache, t, content) ==
    LET cached == RedisGet(cache, get_cache_key(content), t)
    IN IF cached.found THEN json_loads(cached.value) ELSE NoRiskScore

\* cache_score: setex(cache_key, CACHE_TTL, json.dumps(score.dict()))
cache_score(cache, t, content, score) ==
    RedisSetex(cache, get_cache_key(content), CACHE_TTL, json_dumps(score), t)

\* the contents of the documents sent for scoring
DocContents == {"doc-a", "doc-b"}

\* the RiskScore the backend's answer for a content parses to
RiskScoreOf(content) ==
    [score |-> IF content = "doc-a" THEN 20 ELSE 80,
     explanation |-> <<"assessment of ", content>>,
     categories |-> << >>]

\* analyze_document: the RiskScore of the backend's answer, or
\* HTTPException(500) for whatever the call or the parsing raised
analyze_document(content) ==
    {[raised |-> "", score |-> RiskScoreOf(content)],
     [raised |-> "HTTPException", score |-> NoRiskScore]}

\* the request bodies of POST /batch_score
Batches ==
    UNION {[1..n -> [content : DocContents, metadata : {<< >>}]] : n \in 0..MaxBatch}

\* POST /batch_score arrives: scores = []
batch_score_documents_start(documents) ==
    /\ scorer.pc \in {"idle", "returned", "failed"}
    /\ scorer.batches < MaxBatches
    /\ scorer' = [scorer EXCEPT !.pc = "loop", !.documents = documents,
                                !.scores = << >>, !.invoked = << >>,
                                !.started_at = now, !.batches = @ + 1,
                                !.raised = ""]
    /\ UNCHANGED <<config_vars, env_vars, redis_store, req, api, call_vars,
                   airweave, feature_store, job, split>>

\* lines 124-134, one iteration: the cached score if there is one, else a
\* fresh one, cached and appended.  An exception of the redis client or of
\* analyze_document leaves the handler.
batch_score_documents_step(redis_ok) ==
    /\ scorer.pc = "loop"
    /\ Len(scorer.scores) < Len(scorer.documents)
    /\ LET doc == scorer.documents[Len(scorer.scores) + 1]
           cached_score == get_cached_score(scorer.cache, now, doc.content)
       IN IF ~redis_ok
          THEN scorer' = [scorer EXCEPT !.pc = "failed", !.raised = "ConnectionError"]
          ELSE IF cached_score # NoRiskScore
          THEN scorer' = [scorer EXCEPT !.scores = Append(@, cached_score)]
          ELSE \E a \in analyze_document(doc.content) :
                  IF a.raised # ""
                  THEN scorer' = [scorer EXCEPT !.pc = "failed", !.raised = a.raised,
                                               !.invoked = Append(@, doc.content)]
                  ELSE scorer' = [scorer EXCEPT
                                    !.cache = cache_score(@, now, doc.content, a.score),
                                    !.scores = Append(@, a.score),
                                    !.invoked = Append(@, doc.content)]
    /\ UNCHANGED <<config_vars, env_vars, redis_store, req, api, call_vars,
                   airweave, feature_store, job, split>>

\* line 136: return scores
batch_score_documents_return ==
    /\ scorer.pc = "loop"
    /\ Len(scorer.scores) = Len(scorer.documents)
    /\ scorer' = [scorer EXCEPT !.pc = "returned"]
    /\ UNCHANGED <<config_vars, env_vars, redis_store, req, api, call_vars,
                   airweave, feature_store, job, split>>

BatchInit ==
    /\ context_provider = FALSE
    /\ redis = FALSE
    /\ client = FALSE
    /\ qdrant = ServiceDocs
    /\ updates = 0
    /\ redis_up = TRUE
    /\ redis_store = << >>
    /\ clock = 0
    /\ req = [p \in Procs |-> Idle]
    /\ api = NoCall
    /\ post = NoPost
    /\ supplier_risk_profiles = << >>
    /\ http = NoHttp
    /\ scored = NoScore
    /\ NoJobs

BatchNext ==
    \/ \E documents \in Batches : batch_score_documents_start(documents)
    \/ \E redis_ok \in BOOLEAN : batch_score_documents_step(redis_ok)
    \/ batch_score_documents_return
    \/ Tick

SpecBatch == BatchInit /\ [][BatchNext]_vars

(* ------------------------------ claims -------------------------------- *)

Range(f) == {f[i] : i \in DOMAIN f}

\* the cache key of a caller that has hashed its bundle
KeyOf(p) == cache_key(req[p].supplier_id, req[p].evidence_hash)

\* the caller has hashed its bundle
Hashed(p) == req[p].evidence_hash # ""

\* C1: concurrent review_supplier calls for the same supplier and evidence
\* hash that found no cache entry invoke the assessment backend once between
\* them: no two such calls are in flight with an invocation each.
C1_SingleFlight ==
    \A p, q \in Procs :
        (/\ p # q
         /\ req[p].pc \in {"call_llm", "postprocess"}
         /\ req[q].pc \in {"call_llm", "postprocess"}
         /\ req[p].lookup = "miss" /\ req[q].lookup = "miss"
         /\ KeyOf(p) = KeyOf(q))
        => req[p].calls + req[q].calls <= 1

\* C2: a call whose lookup found an unexpired entry under its key returns
\* the review cached there, invokes no backend and writes nothing to the
\* cache.
C2_HitReturnsCached ==
    \A p \in Procs :
        req[p].lookup = "hit"
        => /\ req[p].pc = "done"
           /\ KeyOf(p) \in DOMAIN redis_store
           /\ req[p].result = RiskReview(json_loads(redis_store[KeyOf(p)].value))
           /\ req[p].calls = 0
           /\ ~req[p].wrote

\* a call has been answered from the cache
C2_Witness ==
    \E p \in Procs : req[p].lookup = "hit" /\ req[p].pc = "done"

\* C3: with a cache store configured and reachable, cache_review followed at
\* once by get_cached_review of the same key returns a review equal to the
\* stored one, and get_cached_review of a hash never stored for the supplier
\* returns None.
C3_RoundTrip ==
    (api.called /\ redis /\ api.raised # "ConnectionError")
    => /\ api.raised = ""
       /\ api.cached = api.review
       /\ api.missing = NoReview

\* the calls that looked up an expired entry and are over, the failures of
\* the assessment backend aside
ExpiredAndOver(p) ==
    /\ req[p].lookup = "expired"
    /\ req[p].pc \in {"done", "failed"}
    /\ req[p].step \notin {"call_llm", "postprocess"}

\* C4: once the TTL has elapsed since a review was stored, get_cached_review
\* misses, and the next review_supplier call for the key invokes the backend
\* again and stores the new review.
C4_ExpiryRecomputes ==
    /\ \A h \in ServiceHashes :
          LET key == cache_key(KnownSupplier, h)
          IN (redis /\ redis_up /\ key \in DOMAIN redis_store
                /\ now >= redis_store[key].expires_at)
             => ~get_cached_review(redis_store, now, KnownSupplier, h).found
    /\ \A p \in Procs :
          ExpiredAndOver(p)
          => /\ req[p].pc = "done"
             /\ req[p].calls = 1
             /\ req[p].wrote
             /\ RiskReview(json_loads(redis_store[KeyOf(p)].value)) = req[p].result

\* C5: a cache lookup that fails because the store is unreachable is treated
\* as a miss, never as a failure of the request.
C5_LookupFailureIsMiss ==
    \A p \in Procs :
        ~(req[p].pc = "failed" /\ req[p].step = "cache_lookup"
            /\ req[p].error = "ConnectionError")

\* C6: a failing cache write never turns a computed review into an error of
\* the request.
C6_WriteFailureNotFatal ==
    \A p \in Procs : ~(req[p].pc = "failed" /\ req[p].step = "cache_write")

\* the evidence items of a caller's bundle: section, content, timestamp
ItemsOf(p) ==
    {[section |-> "INTERNAL", content |-> d.content, timestamp |-> d.timestamp] :
        d \in Range(req[p].internal_docs)}
    \cup {[section |-> "EXTERNAL", content |-> a.content, timestamp |-> a.published] :
        a \in Range(req[p].news)}

\* C7: two bundles of a supplier built from the same items, whatever the
\* order in which the store returned them, have the same evidence hash.
C7_HashOrderInvariant ==
    \A p, q \in Procs :
        (/\ Hashed(p) /\ Hashed(q)
         /\ req[p].supplier_id = req[q].supplier_id
         /\ ItemsOf(p) = ItemsOf(q))
        => req[p].evidence_hash = req[q].evidence_hash

\* the bundles of two callers differ in one item's content, timestamp or
\* section and in nothing else
OneItemChanged(p, q) ==
    LET A == ItemsOf(p) \ ItemsOf(q)
        B == ItemsOf(q) \ ItemsOf(p)
    IN /\ Cardinality(A) = 1
       /\ Cardinality(B) = 1
       /\ \E a \in A : \E b \in B :
             Cardinality({f \in {"section", "content", "timestamp"} : a[f] # b[f]}) = 1

C9_ReviewCarriesHash ==
    \A p \in Procs :
        (context_provider /\ req[p].pc = "done")
        => /\ req[p].evidence_hash = compute_evidence_hash(req[p].context)
           /\ req[p].result.evidence_hash = req[p].evidence_hash

\* the positions of the label openers in an evidence text, in order
LabelPositions(ev) ==
    LET S == {i \in DOMAIN ev : ev[i] = "[E"}
    IN CHOOSE f \in [1..Cardinality(S) -> S] : \A i, j \in DOMAIN f : i < j => f[i] < f[j]

\* C10: a bundle built from k internal and m external items carries the
\* labels E1..E(k+m) once each: E1..Ek on the internal items in store order
\* under the INTERNAL heading, E(k+1)..E(k+m) on the external items in store
\* order under the EXTERNAL heading, which follows the internal block.
C10_Labels ==
    \A p \in Procs :
        (context_provider /\ req[p].pc \in {"check_cache", "call_llm"})
        => LET ev == req[p].context.evidence
               k == Len(req[p].internal_docs)
               m == Len(req[p].news)
               pos == LabelPositions(ev)
               ext == {i \in DOMAIN ev : ev[i] = ExternalHeading}
           IN /\ ev[1] = InternalHeading
              /\ Cardinality(ext) = 1
              /\ Len(pos) = k + m
              /\ \A n \in 1..(k + m) : ev[pos[n] + 1] = ToString(n)
              /\ \A n \in 1..k :
                    /\ \A h \in ext : pos[n] < h
                    /\ ev[pos[n] + 5] = req[p].internal_docs[n].timestamp
                    /\ ev[pos[n] + 7] = req[p].internal_docs[n].content
              /\ \A n \in (k + 1)..(k + m) :
                    /\ \A h \in ext : pos[n] > h
                    /\ ev[pos[n] + 5] = req[p].news[n - k].published
                    /\ ev[pos[n] + 9] = req[p].news[n - k].content

\* a bundle with internal and external items has been built
C10_Witness ==
    \E p \in Procs :
        /\ context_provider
        /\ req[p].pc = "check_cache"
        /\ Len(req[p].internal_docs) >= 1
        /\ Len(req[p].news) >= 1

\* the supplier a caller asked for has no row in the suppliers table
NoCoreRecord(p) == req[p].supplier_id \notin {row.id : row \in supplier_table}

\* C11: when the supplier's core record cannot be located, get_context_bundle
\* fails with the not-found error (ValueError "Supplier ... not found"), and
\* the request uses no evidence query result, invokes no backend and writes
\* nothing to the cache.
C11_NotFoundStops ==
    \A p \in Procs :
        (/\ context_provider
         /\ req[p].pc \notin {"idle", "get_context"}
         /\ NoCoreRecord(p))
        => /\ req[p].pc = "failed"
           /\ req[p].step = "get_context"
           /\ req[p].error = "ValueError"
           /\ req[p].internal_docs = << >>
           /\ req[p].news = << >>
           /\ req[p].context = NoContext
           /\ req[p].lookup = "none"
           /\ req[p].calls = 0
           /\ ~req[p].wrote

\* a request for a supplier without a core record has failed
C11_Witness ==
    \E p \in Procs :
        /\ context_provider
        /\ NoCoreRecord(p)
        /\ req[p].pc = "failed"
        /\ req[p].error = "ValueError"

\* a call for a supplier with a core record and no evidence at all is over
EmptyEvidenceOver(p) ==
    /\ context_provider
    /\ ~NoCoreRecord(p)
    /\ req[p].pc \in {"done", "failed"}
    /\ req[p].step # "get_context"
    /\ req[p].internal_docs = << >>
    /\ req[p].news = << >>

\* C12: for a supplier with a core record and empty internal and external
\* evidence lists, get_context_bundle succeeds and review_supplier (with the
\* assessment backend answering) ends in a valid review, never in an error.
C12_EmptyEvidenceValid ==
    \A p \in Procs :
        (EmptyEvidenceOver(p) /\ ~client)
        => /\ req[p].pc = "done"
           /\ ValidReview(req[p].result)
           /\ DOMAIN req[p].result.dimensions = Dimensions
           /\ req[p].result.overall_risk.grade \in {"low", "medium", "high"}

\* C13: a request for the review or the risk profile of a supplier id with
\* no record is answered with 404: GET /review/{supplier_id} of a supplier
\* without a core record, and GET /suppliers/{supplier_id}/risk of a
\* supplier without a stored profile while the database answers.
C13_UnknownIs404 ==
    /\ \A p \in Procs :
          (req[p].pc \in {"done", "failed"} /\ NoCoreRecord(p))
          => get_supplier_review_status(p) = 404
    /\ (http.called /\ http.db_ok /\ ~http.found) => http.status = 404

\* the response has the five dimensions, each with a numeric score
FiveNumeric(r) ==
    /\ DOMAIN r.dimensions = Dimensions
    /\ \A dim \in Dimensions : IsNumeric(r.dimensions[dim])

\* the response assigns a score in [0, 1] to each of the five dimensions
Conforming(r) ==
    /\ FiveNumeric(r)
    /\ \A dim \in Dimensions : r.dimensions[dim].score \in 0..100

\* the sum of the weights, in hundredths
WeightSum ==
    DIMENSION_WEIGHTS.financial + DIMENSION_WEIGHTS.supply
    + DIMENSION_WEIGHTS.reputation + DIMENSION_WEIGHTS.quality + DIMENSION_WEIGHTS.geo

\* C14: for every assignment of scores in [0, 1] to the five dimensions,
\* _postprocess_review attaches an overall score that is the weighted sum
\* 0.25*financial + 0.30*supply + 0.20*reputation + 0.15*quality + 0.10*geo
\* rounded to 2 decimals (a hundredth at most half a hundredth away from the
\* sum), the weights sum to 1, and the overall score lies in [0, 1].
C14_OverallIsWeightedSum ==
    /\ WeightSum = 100
    /\ DIMENSION_WEIGHTS =
          [financial |-> 25, supply |-> 30, reputation |-> 20, quality |-> 15, geo |-> 10]
    /\ (post.called /\ Conforming(post.llm_response))
       => LET sum == WeightedScore(post.llm_response.dimensions)
              overall == post.review.overall_risk.score
          IN /\ post.review # NoReview
             /\ overall * 100 - sum \in -50..50
             /\ overall \in 0..100

\* the classifier has rounded a weighted sum that is not a whole number of
\* hundredths
C14_Witness ==
    /\ post.called
    /\ Conforming(post.llm_response)
    /\ post.review # NoReview
    /\ WeightedScore(post.llm_response.dimensions) % 100 \notin {0, 50}

\* the grade of the bands of the claim for a real overall score, in
\* ten-thousandths
BandOf(score) ==
    IF score > 6600 THEN "high" ELSE IF score > 3300 THEN "medium" ELSE "low"

\* C15: the grade attached to a review is the band of its weighted overall
\* score: above 0.66 high, above 0.33 and up to 0.66 medium, up to 0.33 low;
\* 0.33 itself is low and 0.66 itself is medium.
C15_GradeBands ==
    (post.called /\ Conforming(post.llm_response) /\ post.review # NoReview)
    => post.review.overall_risk.grade
         = BandOf(WeightedScore(post.llm_response.dimensions))

\* the response lacks one of the five dimensions, or has a score that is
\* not a number, or a score outside [0, 1]
Malformed(r) ==
    \E dim \in Dimensions :
        \/ dim \notin DOMAIN r.dimensions
        \/ ~IsNumeric(r.dimensions[dim])
        \/ r.dimensions[dim].score \notin 0..100

\* C16: on a response that lacks a dimension, or has a non-numeric score or
\* a score outside [0, 1], no review is produced: _postprocess_review
\* raises, review_supplier returns nothing and writes nothing to the cache.
C16_MalformedRaises ==
    (post.called /\ Malformed(post.llm_response))
    => /\ post.raised \in {"KeyError", "TypeError", "ValidationError"}
       /\ post.step = "postprocess"
       /\ post.review = NoReview
       /\ post.returned = NoReview
       /\ ~post.wrote
       /\ redis_store = << >>

\* the classifier was handed a score outside [0, 1] and raised
C16_Witness ==
    /\ post.called
    /\ FiveNumeric(post.llm_response)
    /\ \E dim \in Dimensions : post.llm_response.dimensions[dim].score \notin 0..100
    /\ post.raised = "ValidationError"

\* a score clamped into [0, 1]
Clamp(score) == IF score < 0 THEN 0 ELSE IF score > 100 THEN 100 ELSE score

\* C17: handed a dimension score outside [0, 1], the classifier clamps it
\* into [0, 1] before computing the weighted sum: the review carries the
\* clamped scores and an overall score within half a hundredth of their
\* weighted sum.
C17_Clamps ==
    (/\ post.called
     /\ FiveNumeric(post.llm_response)
     /\ ~Conforming(post.llm_response))
    => LET clamped == [dim \in Dimensions |->
                          Entry(Clamp(post.llm_response.dimensions[dim].score))]
       IN /\ post.review # NoReview
          /\ \A dim \in Dimensions :
                post.review.dimensions[dim].score = clamped[dim].score
          /\ post.review.overall_risk.score * 100 - WeightedScore(clamped) \in -50..50
          /\ post.review.overall_risk.score \in 0..100

\* C18: every review returned by review_supplier has a dimensions mapping
\* whose key set is exactly the five dimensions, each dimension score in
\* [0, 1] and the overall score in [0, 1], whichever backend answered.
C18_ReviewShape ==
    \A p \in Procs :
        req[p].pc = "done"
        => /\ DOMAIN req[p].result.dimensions = Dimensions
           /\ \A dim \in Dimensions :
                 /\ IsNumeric(req[p].result.dimensions[dim])
                 /\ req[p].result.dimensions[dim].score \in 0..100
           /\ req[p].result.overall_risk.score \in 0..100

\* review_supplier has returned a review computed from a backend response
C18_Witness ==
    \E p \in Procs :
        /\ req[p].pc = "done"
        /\ req[p].calls = 1
        /\ req[p].result # NoReview

\* the tone weight of the claim, in tenths: 2.0 on [-1, -0.5], 1.0 on
\* (-0.5, -0.1], 0.0 on (-0.1, 0.1], -0.5 on (0.1, 0.5], -1.0 on (0.5, 1]
tone_weight(t) ==
    IF t <= -50 THEN 20
    ELSE IF t <= -10 THEN 10
    ELSE IF t <= 10 THEN 0
    ELSE IF t <= 50 THEN -5
    ELSE -10

\* the recency weight of the claim, in tenths: 1.0 on [0, 24), 0.5 on
\* [24, 168), 0.1 from 168 hours on
recency_weight(a) == IF a < 24 THEN 10 ELSE IF a < 168 THEN 5 ELSE 1

\* C19: the per-item score of a news item with tone t in [-1, 1] (-1.0 when
\* absent) and age a >= 0 hours is tone_weight(t) * recency_weight(a).
C19_ItemScore ==
    (scored.called /\ scored.raised = "")
    => \A i \in DOMAIN scored.news_items :
          LET m == scored.news_items[i].metadata
              t == IF "tone" \in DOMAIN m THEN m.tone ELSE -100
              a == IF "published" \in DOMAIN m THEN m.published ELSE 0
          IN (t \in -100..100 /\ a >= 0)
             => scored.item_scores[i] = tone_weight(t) * recency_weight(a)

\* an item with tone -0.8 and age 10 hours was scored 2.0, and so returned
C19_Witness ==
    /\ scored.called
    /\ scored.raised = ""
    /\ \E i \in DOMAIN scored.news_items :
          /\ scored.news_items[i].metadata = [tone |-> -80, published |-> 10]
          /\ scored.item_scores[i] = 200
    /\ scored.score = 200

\* the first index among those with the highest per-item score
TopIndex(item_scores) ==
    CHOOSE i \in DOMAIN item_scores :
        /\ \A j \in DOMAIN item_scores : item_scores[j] <= item_scores[i]
        /\ \A j \in DOMAIN item_scores : item_scores[j] = item_scores[i] => i <= j

\* C20: compute_risk_score returns the score and the content snippet of the
\* item with the highest per-item score, the first such item in input order
\* on a tie; for no item at all it returns 0.0 and the empty snippet.
C20_TopItem ==
    (scored.called /\ scored.raised = "")
    => IF scored.news_items = << >>
       THEN scored.score = 0 /\ scored.snippet = << >>
       ELSE LET top == TopIndex(scored.item_scores)
            IN /\ scored.score = scored.item_scores[top]
               /\ scored.snippet = Snippet(scored.news_items[top].content)

RECURSIVE WithoutUnparsable(_)
\* the list without the items whose published value cannot be parsed
WithoutUnparsable(news_items) ==
    IF news_items = << >> THEN << >>
    ELSE IF Parsable(Head(news_items).metadata)
    THEN <<Head(news_items)>> \o WithoutUnparsable(Tail(news_items))
    ELSE WithoutUnparsable(Tail(news_items))

\* C21: compute_risk_score never fails on malformed input: on every list,
\* items with an unparsable published timestamp included, it returns a
\* (score, snippet) result, the one it returns for the list without those
\* items.
C21_NeverFails ==
    scored.called
    => /\ scored.raised = ""
       /\ LET expected == compute_risk_score(WithoutUnparsable(scored.news_items))
          IN scored.score = expected.score /\ scored.snippet = expected.snippet

\* the response a caller holds has been classified without error
Classified(p) ==
    /\ req[p].response.kind = "dict"
    /\ \E err \in FloatErrors :
          postprocess_review(req[p].response.body, 0, err).raised = ""

\* C22: review_supplier writes to the cache only after evidence gathering,
\* the cache lookup, the assessment and the classification have completed:
\* a call that wrote, or failed while writing, holds a bundle, its hash, a
\* lookup that missed, one backend answer and a classified review; a call
\* that failed at an earlier step has written nothing.
C22_PersistAfterClassify ==
    \A p \in Procs :
        /\ (req[p].wrote \/ (req[p].pc = "failed" /\ req[p].step = "cache_write"))
           => /\ req[p].context # NoContext
              /\ Hashed(p)
              /\ req[p].lookup \in {"miss", "expired"}
              /\ req[p].calls = 1
              /\ Classified(p)
        /\ (req[p].pc = "failed"
              /\ req[p].step \in {"get_context", "cache_lookup", "call_llm", "postprocess"})
           => ~req[p].wrote

\* with a cache configured, a call has failed in the classification, after
\* its lookup missed, and the cache holds nothing under its key
C22_Witness ==
    /\ redis
    /\ \E p \in Procs :
          /\ req[p].pc = "failed"
          /\ req[p].step = "postprocess"
          /\ req[p].lookup = "miss"
          /\ KeyOf(p) \notin DOMAIN redis_store

SinkRows(supplier_id, t) ==
    {i \in DOMAIN supplier_risk_profiles :
        /\ supplier_risk_profiles[i].supplier_id = supplier_id
        /\ supplier_risk_profiles[i].timestamp = t}

\* C24: a review that review_supplier computed on a cache miss is in the
\* result sink exactly once, under its supplier and its timestamp, once the
\* job's store step has handled it.
C24_AppendedOnce ==
    \A p \in Procs :
        (req[p].pc = "done" /\ req[p].logged /\ req[p].lookup # "hit")
        => Cardinality(SinkRows(req[p].supplier_id, req[p].result.timestamp.datetime)) = 1

\* how often the backend was invoked for a content in the batch
Invocations(content) ==
    Cardinality({i \in DOMAIN scorer.invoked : scorer.invoked[i] = content})

\* one score per document, in input order, each the score of its content
OnePerDocument ==
    /\ Len(scorer.scores) = Len(scorer.documents)
    /\ \A i \in DOMAIN scorer.documents :
          scorer.scores[i] = RiskScoreOf(scorer.documents[i].content)

RecentNegativeNews ==
    \E i \in DOMAIN airweave :
        /\ airweave[i].collection = "news"
        /\ airweave[i].metadata.supplier_id = job.supplier_id
        /\ PublishedKind(airweave[i].metadata) = "aware"
        /\ InLastDay(airweave[i].metadata)
        /\ airweave[i].metadata.tone < 0

\* C26: a run of the risk_score job that went through all four ops has
\* appended exactly one record for the supplier to the feature store and
\* left the earlier records as they were; when the supplier has a news item
\* of the last 24 hours with a negative tone, the recorded score is
\* greater than 0.
C26_OneRecordPositive ==
    job.pc = "finished"
    => /\ Len(feature_store) = Len(job.lines_before) + 1
       /\ SubSeq(feature_store, 1, Len(job.lines_before)) = job.lines_before
       /\ feature_store[Len(feature_store)].supplier_id = job.supplier_id
       /\ RecentNegativeNews => feature_store[Len(feature_store)].score > 0

\* the documents the fetch is to return: the news of the supplier whose
\* published timestamp lies in the last 24 hours, in store order
RecentNewsOf(supplier_id) ==
    SelectSeq(airweave,
              LAMBDA doc : /\ doc.collection = "news"
                           /\ doc.metadata.supplier_id = supplier_id
                           /\ "published" \in DOMAIN doc.metadata
                           /\ InLastDay(doc.metadata))

\* C28: fetch_recent_news does not fail, whatever the published values of
\* the documents, and returns in store order exactly the news of the
\* supplier published within the last 24 hours.
C28_FetchSkipsUnusable ==
    (job.pc = "compute_risk_score"
        \/ (job.pc = "failed" /\ job.step = "fetch_recent_news"))
    => /\ job.raised = ""
       /\ job.news_items = RecentNewsOf(job.supplier_id)

\* the stored profiles of a supplier in a table
StoredFor(rows, supplier_id) ==
    {i \in DOMAIN rows : rows[i].supplier_id = supplier_id}

\* C27: a step changes supplier_risk_profiles only by adding one row after
\* the rows there are, and a request answered with a profile is answered
\* with the risk_json of a stored profile of the requested supplier whose
\* timestamp none of that supplier's profiles exceeds.
C27_AppendOnlyLatest ==
    [][/\ supplier_risk_profiles' # supplier_risk_profiles
          => /\ Len(supplier_risk_profiles') = Len(supplier_risk_profiles) + 1
             /\ SubSeq(supplier_risk_profiles', 1, Len(supplier_risk_profiles))
                   = supplier_risk_profiles
       /\ (http' # http /\ http'.status = 200)
          => \E i \in StoredFor(supplier_risk_profiles', http'.supplier_id) :
                /\ supplier_risk_profiles'[i].risk_json = http'.body
                /\ \A j \in StoredFor(supplier_risk_profiles', http'.supplier_id) :
                      supplier_risk_profiles'[j].timestamp
                         <= supplier_risk_profiles'[i].timestamp]_vars

\* a request answered with the later of two profiles of the supplier that
\* differ in risk_json, the last row stored being one of another supplier
C27_Witness ==
    /\ http.called
    /\ http.status = 200
    /\ Len(supplier_risk_profiles) = 3
    /\ supplier_risk_profiles[1].supplier_id = http.supplier_id
    /\ supplier_risk_profiles[2].supplier_id = http.supplier_id
    /\ supplier_risk_profiles[3].supplier_id # http.supplier_id
    /\ supplier_risk_profiles[1].timestamp < supplier_risk_profiles[2].timestamp
    /\ supplier_risk_profiles[2].timestamp < supplier_risk_profiles[3].timestamp
    /\ supplier_risk_profiles[1].risk_json # supplier_risk_profiles[2].risk_json
    /\ supplier_risk_profiles[2].risk_json # supplier_risk_profiles[3].risk_json
    /\ http.body = supplier_risk_profiles[2].risk_json

\* the grade of the bands of the claim for an overall score rounded to two
\* decimals, in hundredths
BandOfRounded(score) ==
    IF score > 66 THEN "high" ELSE IF score > 33 THEN "medium" ELSE "low"

\* C29: in a review produced by _postprocess_review the grade is the band
\* of the overall score attached to that review: high when the attached
\* score is above 0.66, medium when it is above 0.33 and up to 0.66, low
\* when it is up to 0.33.
C29_GradeOfAttachedScore ==
    (post.called /\ post.review # NoReview)
    => post.review.overall_risk.grade = BandOfRounded(post.review.overall_risk.score)

\* C30: every iteration of the loop of split_text leaves the start offset
\* greater than it was, also when the chunk was cut at its last period, so
\* the loop ends after finitely many chunks.
C30_StartIncreases ==
    [][(split.pc = "loop" /\ split'.pc = "loop") => split'.start > split.start]_vars
====
